---- MODULE Spec2Model ----
(***************************************************************************)
(* A model of converter.py: the conversion of raw sensor logs              *)
(* (measurements/*.csv) into normalized CSV files                          *)
(* (converted_measurements/converted_<name>) and the rendering of the      *)
(* detailed plots described by cfg.json / cfg.csv.                         *)
(*                                                                         *)
(* Text is modelled character by character: a string is a sequence of      *)
(* one-character strings.  A CSV file is the sequence of rows csv.reader   *)
(* yields for it, a row being a sequence of cells.                         *)
(***************************************************************************)
EXTENDS Integers, Sequences, FiniteSets, TLC

VARIABLES
    measurements,   \* os.listdir(PATH) in discovery order: records [name, file]
    converted,      \* the files of WRITEPATH: name -> [fieldnames, rows]
    cfgJson,        \* cfg.json
    cfgCsv,         \* cfg.csv
    detailedPlots,  \* the images of detailed_plots/: name -> the points plotted
    clock,          \* the wall clock, a datetime
    pc,             \* "convert", "plot", "done", or "crashed" (an uncaught exception)
    fileIdx,        \* the conversion loop: index of the next entry of measurements
    detailed_config,\* plot_detailed_co2_data: the configuration entries being handled
    entryIdx,       \* plot_detailed_co2_data: index of the next entry
    log,            \* what happened to each entry handled so far in this run
    error,          \* [site, exc] of the uncaught exception, NoError when none
    csvRead,        \* whether load_config_csv was called in this run
    runs,           \* how many times the script has been started
    firstRun,       \* the content of WRITEPATH when the first run had ended
    arg,            \* the argument of the function under test (function-level specifications)
    ret             \* what the call returned or raised; NotCalled before the call

progVars == <<measurements, converted, cfgJson, cfgCsv, detailedPlots, clock, pc, fileIdx,
              detailed_config, entryIdx, log, error, csvRead, runs, firstRun>>
vars == <<progVars, arg, ret>>

(***************************************************************************)
(* Bounds of the model                                                     *)
(***************************************************************************)
MaxTitleLen == 11
MaxLines == 3
MaxCells == 5
MaxFiles == 2
MaxEntries == 2
MaxRuns == 2
MaxTick == 1
PlotFileLines == 32

(***************************************************************************)
(* Python string operations                                                *)
(***************************************************************************)
SP == " "

\* str.split() with no argument splits on runs of whitespace
IsSpace(c) == c \in {" ", "\t"}

\* s[i:] for a 1-based i
From(s, i) == SubSeq(s, i, Len(s))

\* the first position from i on that holds c, 0 when there is none
RECURSIVE FindFrom(_, _, _)
FindFrom(s, c, i) ==
    IF i > Len(s) THEN 0 ELSE IF s[i] = c THEN i ELSE FindFrom(s, c, i + 1)

\* the last position up to i that holds c, 0 when there is none
RECURSIVE FindBack(_, _, _)
FindBack(s, c, i) ==
    IF i < 1 THEN 0 ELSE IF s[i] = c THEN i ELSE FindBack(s, c, i - 1)

\* str.find(c) + 1: the position of the first c in s, 0 when there is none
FindFirst(s, c) == FindFrom(s, c, 1)

\* str.rfind(c) + 1: the position of the last c in s, 0 when there is none
FindLast(s, c) == FindBack(s, c, Len(s))

\* the parts of s before and after position i, <<s>> when i = 0
CutAt(s, i) == IF i = 0 THEN <<s>> ELSE <<SubSeq(s, 1, i - 1), From(s, i + 1)>>

\* s.split(" ", 1): one or two parts
SplitOnce(s) == CutAt(s, FindFirst(s, SP))

\* s.rsplit(" ", 1): one or two parts
RSplitOnce(s) == CutAt(s, FindLast(s, SP))

\* the first position from i on that holds whitespace, Len(s) + 1 when there is none
RECURSIVE TokenEnd(_, _)
TokenEnd(s, i) ==
    IF i > Len(s) \/ IsSpace(s[i]) THEN i ELSE TokenEnd(s, i + 1)

\* s.split(): the maximal runs of non-whitespace characters, in order
RECURSIVE SplitWs(_)
TakeToken(s, stop) == <<SubSeq(s, 1, stop - 1)>> \o SplitWs(From(s, stop))
SplitWs(s) ==
    IF s = <<>> THEN <<>>
    ELSE IF IsSpace(s[1]) THEN SplitWs(Tail(s))
    ELSE TakeToken(s, TokenEnd(s, 1))

\* s.split(sep) for a one-character sep: the parts between the separators
RECURSIVE Split(_, _)
SplitAt(s, sep, i) ==
    IF i = 0 THEN <<s>> ELSE <<SubSeq(s, 1, i - 1)>> \o Split(From(s, i + 1), sep)
Split(s, sep) == SplitAt(s, sep, FindFirst(s, sep))

\* s.strip(): s without its leading and trailing whitespace
RECURSIVE LStrip(_)
LStrip(s) == IF s # <<>> /\ IsSpace(s[1]) THEN LStrip(Tail(s)) ELSE s
RECURSIVE RStrip(_)
RStrip(s) ==
    IF s # <<>> /\ IsSpace(s[Len(s)]) THEN RStrip(SubSeq(s, 1, Len(s) - 1)) ELSE s
Strip(s) == RStrip(LStrip(s))

\* s.replace(old, "") : every occurrence of old removed, left to right
RECURSIVE Remove(_, _)
Remove(s, old) ==
    IF Len(s) < Len(old) \/ old = <<>> THEN s
    ELSE IF SubSeq(s, 1, Len(old)) = old THEN Remove(From(s, Len(old) + 1), old)
    ELSE <<s[1]>> \o Remove(Tail(s), old)

\* s.endswith(suffix)
EndsWith(s, suffix) ==
    Len(s) >= Len(suffix) /\ From(s, Len(s) - Len(suffix) + 1) = suffix

Digits == <<"0", "1", "2", "3", "4", "5", "6", "7", "8", "9">>
IsDigit(c) == \E i \in 1..10 : Digits[i] = c
DigitVal(c) == (CHOOSE i \in 1..10 : Digits[i] = c) - 1
AllDigits(s) == s # <<>> /\ \A i \in 1..Len(s) : IsDigit(s[i])

\* the value of a non-empty string of decimal digits
RECURSIVE DecVal(_)
DecVal(s) == IF s = <<>> THEN 0 ELSE 10 * DecVal(SubSeq(s, 1, Len(s) - 1)) + DigitVal(s[Len(s)])

\* n written with at least w decimal digits (the %02d, %04d of strftime)
RECURSIVE Dec(_, _)
Dec(n, w) ==
    IF n < 10 /\ w <= 1 THEN <<Digits[n + 1]>>
    ELSE Dec(n \div 10, w - 1) \o <<Digits[(n % 10) + 1]>>

(***************************************************************************)
(* Exceptions: a call returns a record whose exc field is "none" or the    *)
(* name of the exception it raised.                                        *)
(***************************************************************************)
NotCalled == [exc |-> "not called", title |-> <<>>, date |-> <<>>]
NotCalledRows == [exc |-> "not called", rows |-> <<>>]
Raised(e) == [exc |-> e, title |-> <<>>, date |-> <<>>]

(***************************************************************************)
(* get_first_line_info                                                     *)
(***************************************************************************)
\* title.split(" ", 1)[1].rsplit(" ", 1)[0]: the text between the first and the last space
MiddleRegion(title) == RSplitOnce(SplitOnce(title)[2])[1]

\* the slice [2:] of the token list
DateTimeSliceLast2(toks) == IF Len(toks) < 2 THEN toks ELSE From(toks, Len(toks) - 1)
DateTimeSlice(toks) == From(toks, 3)

\* date, time = ...: exactly two values unpack
UnpackDateTime(title, got) ==
    IF Len(got) # 2 THEN Raised("ValueError")
    ELSE [exc |-> "none", title |-> title, date |-> got[1] \o <<SP>> \o got[2]]

ParseTitle(title) ==
    IF Len(SplitOnce(title)) < 2 THEN Raised("IndexError")       \* split(" ", 1)[1]
    ELSE UnpackDateTime(title, DateTimeSlice(SplitWs(MiddleRegion(title))))

\* file: the rows of the raw file
get_first_line_info(file) ==
    IF file = <<>> THEN Raised("StopIteration")           \* next(reader) on an empty file
    ELSE IF file[1] = <<>> THEN Raised("IndexError")       \* next(reader)[0] on a blank line
    ELSE ParseTitle(file[1][1])

(***************************************************************************)
(* datetime: a naive datetime is its number of seconds since               *)
(* 1970.01.01 00:00:00 in the proleptic Gregorian calendar.                *)
(***************************************************************************)
SecondsPerDay == 86400

IsLeap(y) == (y % 4 = 0 /\ y % 100 # 0) \/ y % 400 = 0
DaysInMonth(y, m) ==
    IF m = 2 THEN (IF IsLeap(y) THEN 29 ELSE 28)
    ELSE IF m \in {4, 6, 9, 11} THEN 30 ELSE 31

\* the day number of y.m.d (0 for 1970.01.01)
DaysFromCivil(y, m, d) ==
    LET yy  == IF m <= 2 THEN y - 1 ELSE y
        era == yy \div 400
        yoe == yy - era * 400
        mp  == IF m > 2 THEN m - 3 ELSE m + 9
        doy == (153 * mp + 2) \div 5 + d - 1
        doe == yoe * 365 + yoe \div 4 - yoe \div 100 + doy
    IN  era * 146097 + doe - 719468

\* <<y, m, d>> of a day number
CivilFromDays(z) ==
    LET zz  == z + 719468
        era == zz \div 146097
        doe == zz - era * 146097
        yoe == (doe - doe \div 1460 + doe \div 36524 - doe \div 146096) \div 365
        doy == doe - (365 * yoe + yoe \div 4 - yoe \div 100)
        mp  == (5 * doy + 2) \div 153
        d   == doy - (153 * mp + 2) \div 5 + 1
        m   == IF mp < 10 THEN mp + 3 ELSE mp - 9
        y   == yoe + era * 400
    IN  <<IF m <= 2 THEN y + 1 ELSE y, m, d>>

MakeDateTime(y, mo, d, h, mi, sec) ==
    DaysFromCivil(y, mo, d) * SecondsPerDay + h * 3600 + mi * 60 + sec

\* datetime.date(): the day number of a datetime
DateOf(t) == t \div SecondsPerDay

\* a field of 1..2 digits (exactly 4 for the year) with a value in lo..hi
FieldOk(f, minLen, maxLen, lo, hi) ==
    /\ AllDigits(f)
    /\ Len(f) >= minLen /\ Len(f) <= maxLen
    /\ DecVal(f) >= lo /\ DecVal(f) <= hi

NotADate == [ok |-> FALSE, t |-> 0]

\* the six numbers of a timestamp whose fields are well formed
DateTimeOfFields(y, mo, d, h, mi, sec) ==
    IF d > DaysInMonth(y, mo) THEN NotADate
    ELSE [ok |-> TRUE, t |-> MakeDateTime(y, mo, d, h, mi, sec)]

\* dp, tp: the fields of the date, split at ".", and of the time, split at ":"
StrptimeFields(dp, tp) ==
    IF Len(dp) # 3 \/ Len(tp) # 3 THEN NotADate
    ELSE IF ~ /\ FieldOk(dp[1], 4, 4, 1, 9999)
              /\ FieldOk(dp[2], 1, 2, 1, 12)
              /\ FieldOk(dp[3], 1, 2, 1, 31)
              /\ FieldOk(tp[1], 1, 2, 0, 23)
              /\ FieldOk(tp[2], 1, 2, 0, 59)
              /\ FieldOk(tp[3], 1, 2, 0, 59)
         THEN NotADate
    ELSE DateTimeOfFields(DecVal(dp[1]), DecVal(dp[2]), DecVal(dp[3]),
                          DecVal(tp[1]), DecVal(tp[2]), DecVal(tp[3]))

StrptimeTokens(s, toks) ==
    IF Len(toks) # 2 \/ Strip(s) # s THEN NotADate
    ELSE StrptimeFields(Split(toks[1], "."), Split(toks[2], ":"))

\* strptime(s, "%Y.%m.%d %H:%M:%S"): [ok, t]; ok = FALSE stands for ValueError
Strptime(s) == StrptimeTokens(s, SplitWs(s))

StrptimeTimeFields(tp) ==
    IF Len(tp) # 3 THEN NotADate
    ELSE IF ~ /\ FieldOk(tp[1], 1, 2, 0, 23)
              /\ FieldOk(tp[2], 1, 2, 0, 59)
              /\ FieldOk(tp[3], 1, 2, 0, 59)
         THEN NotADate
    ELSE [ok |-> TRUE, t |-> DecVal(tp[1]) * 3600 + DecVal(tp[2]) * 60 + DecVal(tp[3])]

\* strptime(s, "%H:%M:%S").time(): [ok, t], t the second of the day
StrptimeTime(s) == StrptimeTimeFields(Split(s, ":"))

\* the text of a date <<y, m, d>> and a second of the day, the fields joined by
\* dsep and tsep and the two parts by sep
FormatFields(ymd, sod, dsep, sep, tsep) ==
    Dec(ymd[1], 4) \o dsep \o Dec(ymd[2], 2) \o dsep \o Dec(ymd[3], 2) \o sep
        \o Dec(sod \div 3600, 2) \o tsep \o Dec((sod % 3600) \div 60, 2)
        \o tsep \o Dec(sod % 60, 2)

\* t.strftime("%Y.%m.%d %H:%M:%S")
Strftime(t) ==
    FormatFields(CivilFromDays(DateOf(t)), t % SecondsPerDay, <<".">>, <<SP>>, <<":">>)

\* t.strftime("%Y%m%d_%H%M%S")
StrftimeCompact(t) ==
    FormatFields(CivilFromDays(DateOf(t)), t % SecondsPerDay, <<>>, <<"_">>, <<>>)

(***************************************************************************)
(* create_writable_list                                                    *)
(***************************************************************************)
Headers ==
    <<"CO2(ppm)", "Temperature(C)", "Maximum_CO2(ppm)", "Minimum_CO2(ppm)",
      "Date_Of_Measurement(datetime)">>
HeaderSet == {Headers[i] : i \in 1..Len(Headers)}
HeaderIndex(h) == CHOOSE i \in 1..Len(Headers) : Headers[i] = h
DateHeader == "Date_Of_Measurement(datetime)"

\* the sampling interval: timedelta(seconds=il * 2)
SampleSeconds == 2

\* d.split(":")[-1].strip()
LastOf(parts) == parts[Len(parts)]
DePrefix(d) == Strip(LastOf(Split(d, ":")))

\* data of one line: the de-prefixed cells followed by the timestamp of row il (0-based)
RowData(line, il, t0) ==
    [i \in 1..Len(line) |-> DePrefix(line[i])] \o <<Strftime(t0 + il * SampleSeconds)>>

\* the loop over the headers: data[ih] for each header, IndexError when data is too short
RowDictPadded(data) ==
    [exc |-> "none",
     row |-> [h \in HeaderSet |-> IF HeaderIndex(h) <= Len(data)
                                  THEN data[HeaderIndex(h)] ELSE <<>>]]
RowDict(data) ==
    IF Len(data) < Len(Headers)
    THEN [exc |-> "IndexError", row |-> [h \in HeaderSet |-> <<>>]]
    ELSE [exc |-> "none", row |-> [h \in HeaderSet |-> data[HeaderIndex(h)]]]

\* the rows of the lines from the il-th on, given the mapping r of the il-th
RECURSIVE ConvertLines(_, _, _)
ConsRow(r, rest) ==
    IF r.exc # "none" THEN [exc |-> r.exc, rows |-> <<>>]
    ELSE IF rest.exc # "none" THEN rest
    ELSE [exc |-> "none", rows |-> <<r.row>> \o rest.rows]
ConvertLines(lines, il, t0) ==
    IF lines = <<>> THEN [exc |-> "none", rows |-> <<>>]
    ELSE ConsRow(RowDict(RowData(lines[1], il, t0)), ConvertLines(Tail(lines), il + 1, t0))

\* file: the rows of the raw file, the title line first
create_writable_list(file, t0) == ConvertLines(Tail(file), 0, t0)

(***************************************************************************)
(* The file system and the script's state when nothing has run             *)
(***************************************************************************)
NoError == [site |-> "none", exc |-> "none"]
NoFiles == [n \in {} |-> <<>>]

MissingJson == [state |-> "missing", shape |-> "dict", has |-> FALSE, plots |-> <<>>]
MissingCsv == [state |-> "missing", header |-> <<>>, rows |-> <<>>]

\* the script has not been started and the directories are empty
ProgramIdle ==
    /\ measurements = <<>>
    /\ converted = NoFiles
    /\ cfgJson = MissingJson
    /\ cfgCsv = MissingCsv
    /\ detailedPlots = NoFiles
    /\ clock = 0
    /\ pc = "idle"
    /\ fileIdx = 1
    /\ detailed_config = <<>>
    /\ entryIdx = 1
    /\ log = <<>>
    /\ error = NoError
    /\ csvRead = FALSE
    /\ runs = 0
    /\ firstRun = NoFiles

(***************************************************************************)
(* The conversion loop                                                     *)
(***************************************************************************)
DotCsv == <<".", "c", "s", "v">>
ConvertedPrefix == <<"c", "o", "n", "v", "e", "r", "t", "e", "d", "_">>

\* get_csv_files: the entries of the listing whose name ends with ".csv", in order
get_csv_files(listing) == SelectSeq(listing, LAMBDA e : EndsWith(e.name, DotCsv))

\* open(output_file, "w") then writeheader() and writerows(): the file is created or
\* replaced, one record per mapping, the cells in the order of the field names
CellsOf(rows) == [i \in 1..Len(rows) |-> [c \in 1..Len(Headers) |-> rows[i][Headers[c]]]]
WriteCsvAppending(dir, name, rows) ==
    [n \in DOMAIN dir \cup {name} |->
        IF n = name
        THEN [fieldnames |-> Headers,
              rows |-> (IF name \in DOMAIN dir THEN dir[name].rows ELSE <<>>) \o CellsOf(rows)]
        ELSE dir[n]]
WriteCsv(dir, name, rows) ==
    [n \in DOMAIN dir \cup {name} |->
        IF n = name THEN [fieldnames |-> Headers, rows |-> CellsOf(rows)] ELSE dir[n]]

\* lines 368-376: the list is written, unless create_writable_list raised
WriteList(dir, out, csv_list) ==
    IF csv_list.exc # "none" THEN [exc |-> csv_list.exc, dir |-> dir]
    ELSE [exc |-> "none", dir |-> WriteCsv(dir, out, csv_list.rows)]

\* lines 359-363: strptime of the start time, then create_writable_list
TransformFrom(dir, entry, t0) ==
    IF ~t0.ok THEN [exc |-> "ValueError", dir |-> dir]
    ELSE WriteList(dir, ConvertedPrefix \o entry.name, create_writable_list(entry.file, t0.t))

\* line 355 onwards, info being what get_first_line_info returned or raised
ConvertFrom(dir, entry, info) ==
    IF info.exc # "none" THEN [exc |-> info.exc, dir |-> dir]
    ELSE TransformFrom(dir, entry, Strptime(info.date))

\* a loop body that opens the output file before it parses the input
TruncateOnError(dir, entry, r) ==
    IF r.exc = "none" THEN r
    ELSE [exc |-> r.exc, dir |-> WriteCsv(dir, ConvertedPrefix \o entry.name, <<>>)]
ConvertOneOpeningFirst(dir, entry) ==
    TruncateOnError(dir, entry, ConvertFrom(dir, entry, get_first_line_info(entry.file)))

\* the body of the loop for one file: [exc, dir], dir the output directory afterwards
ConvertOne(dir, entry) == ConvertFrom(dir, entry, get_first_line_info(entry.file))

(***************************************************************************)
(* Configuration                                                           *)
(*                                                                         *)
(* cfg.json is [state, shape, has, plots]: state is "missing",             *)
(* "unreadable" (open raises an OSError other than FileNotFoundError),     *)
(* "malformed" (not JSON) or "ok"; an "ok" document is a list or a dict    *)
(* (shape), a dict has the key detailed_plots or not (has), with the list  *)
(* plots of entries under it.  An entry is a JSON object: a set of         *)
(* <<key, value>> pairs.                                                   *)
(* cfg.csv is [state, header, rows]: the header line and the data rows,    *)
(* each row with as many cells as the header.                              *)
(***************************************************************************)
EmptyConfig == [shape |-> "dict", has |-> FALSE, plots |-> <<>>]

Has(obj, key) == \E p \in obj : p[1] = key
Get(obj, key) == (CHOOSE p \in obj : p[1] = key)[2]

\* load_config: [exc, config]
load_config(file) ==
    IF file.state = "missing" \/ file.state = "malformed"
    THEN [exc |-> "none", config |-> EmptyConfig]      \* caught: warning, {}
    ELSE IF file.state = "unreadable"
    THEN [exc |-> "PermissionError", config |-> EmptyConfig]
    ELSE [exc |-> "none",
          config |-> [shape |-> file.shape, has |-> file.has, plots |-> file.plots]]

\* the position of a column in the header line, 0 when the header lacks it
Column(header, name) ==
    IF \E i \in 1..Len(header) : header[i] = name
    THEN CHOOSE i \in 1..Len(header) : header[i] = name
    ELSE 0

\* lines 109-115 for the columns f, st, du of File, Start, Duration
RowsToConfig(rows, f, st, du) ==
    IF rows # <<>> /\ (f = 0 \/ st = 0 \/ du = 0)
    THEN [exc |-> "KeyError", config |-> EmptyConfig]            \* row["File"] ...
    ELSE [exc |-> "none",
          config |-> [shape |-> "dict", has |-> TRUE,
                      plots |-> [i \in 1..Len(rows) |->
                                   { <<"file", rows[i][f]>>,
                                     <<"from", rows[i][st]>>,
                                     <<"length", rows[i][du]>> }]]]

\* load_config_csv: [exc, config]
load_config_csv(file) ==
    IF file.state = "missing"
    THEN [exc |-> "none", config |-> EmptyConfig]      \* caught: warning, {}
    ELSE IF file.state = "unreadable"
    THEN [exc |-> "PermissionError", config |-> EmptyConfig]
    ELSE RowsToConfig(file.rows, Column(file.header, "File"),
                      Column(file.header, "Start"), Column(file.header, "Duration"))

\* config.get("detailed_plots") is truthy
HasPlots(config) == config.has /\ config.plots # <<>>

\* lines 154-156, c2 being what load_config_csv returned or raised
ConfigFromCsv(c2) ==
    IF c2.exc # "none" THEN [exc |-> c2.exc, entries |-> <<>>, csvRead |-> TRUE]
    ELSE [exc |-> "none",
          entries |-> IF c2.config.has THEN c2.config.plots ELSE <<>>,
          csvRead |-> TRUE]

\* lines 153-156, c1 being what load_config returned or raised
ConfigFromJson(c1, csv) ==
    IF c1.exc # "none" THEN [exc |-> c1.exc, entries |-> <<>>, csvRead |-> FALSE]
    ELSE IF c1.config.shape # "dict"                     \* a list has no .get
    THEN [exc |-> "AttributeError", entries |-> <<>>, csvRead |-> FALSE]
    ELSE IF HasPlots(c1.config)
    THEN [exc |-> "none", entries |-> c1.config.plots, csvRead |-> FALSE]
    ELSE ConfigFromCsv(load_config_csv(csv))

\* plot_detailed_co2_data up to its loop: [exc, entries, csvRead]
LoadDetailedConfig(json, csv) == ConfigFromJson(load_config(json), csv)

(***************************************************************************)
(* plot_detailed_co2_data: one configuration entry                         *)
(***************************************************************************)
NotAnInt == [ok |-> FALSE, v |-> 0]

\* t: the stripped text of the number
IntOfStripped(t) ==
    IF t # <<>> /\ t[1] = "-"
    THEN (IF AllDigits(Tail(t)) THEN [ok |-> TRUE, v |-> 0 - DecVal(Tail(t))] ELSE NotAnInt)
    ELSE IF t # <<>> /\ t[1] = "+"
    THEN (IF AllDigits(Tail(t)) THEN [ok |-> TRUE, v |-> DecVal(Tail(t))] ELSE NotAnInt)
    ELSE IF AllDigits(t) THEN [ok |-> TRUE, v |-> DecVal(t)] ELSE NotAnInt

\* int(s): [ok, v]
PyInt(s) == IntOfStripped(Strip(s))

\* timedelta(hours=hours, minutes=minutes), in seconds
TimeDelta(hours, minutes) ==
    IF ~hours.ok \/ ~minutes.ok THEN NotAnInt
    ELSE [ok |-> TRUE, v |-> hours.v * 3600 + minutes.v * 60]

DurationOfParts(parts) ==
    IF Len(parts) # 2 THEN NotAnInt ELSE TimeDelta(PyInt(parts[1]), PyInt(parts[2]))

\* parse_time_duration: [ok, v], v the duration in seconds; ok = FALSE is ValueError
parse_time_duration(duration_str) == DurationOfParts(Split(duration_str, ":"))

\* pd.to_numeric accepts the cell: an optional sign, digits, at most one point
UnsignedNumeric(body) ==
    /\ \E i \in 1..Len(body) : IsDigit(body[i])
    /\ \A i \in 1..Len(body) : IsDigit(body[i]) \/ body[i] = "."
    /\ \A i, i2 \in 1..Len(body) : body[i] = "." /\ body[i2] = "." => i = i2
IsNumeric(s) ==
    \/ s = <<>>
    \/ IF s[1] \in {"+", "-"} THEN UnsignedNumeric(Tail(s)) ELSE UnsignedNumeric(s)

\* the column of a converted file under a header, as read by pd.read_csv
ColumnOf(file, header) ==
    [i \in 1..Len(file.rows) |-> file.rows[i][Column(file.fieldnames, header)]]

\* the mask of lines 206-208: start_datetime <= t <= end_datetime
InWindowStrict(t, start, end) == start < t /\ t < end
InWindow(t, start, end) == start <= t /\ t <= end

DetailedPrefix == <<"d", "e", "t", "a", "i", "l", "e", "d", "_", "c", "o", "2", "_", "p", "l", "o", "t", "_">>
DotPng == <<".", "p", "n", "g">>

\* plot_filename of line 246
PlotFileName(csv_filename, start_time_str, now) ==
    DetailedPrefix \o Remove(csv_filename, DotCsv) \o <<"_">>
        \o Remove(start_time_str, <<":">>) \o <<"_">> \o StrftimeCompact(now) \o DotPng

Outcome(o, e, n, pts) == [outcome |-> o, exc |-> e, name |-> n, points |-> pts]

\* lines 209-242: the points of the window, if any, are plotted
PlotPoints(pts) ==
    IF pts = <<>> THEN Outcome("empty", "none", <<>>, <<>>)
    ELSE Outcome("rendered", "none", <<>>, pts)

\* lines 206-209: df[mask], as the points <<time, CO2>>
PointsAt(times, co2, idx) == [n \in 1..Len(idx) |-> <<times[idx[n]], co2[idx[n]]>>]
Filtered(times, co2, start_datetime, end_datetime) ==
    PointsAt(times, co2,
             SelectSeq([i \in 1..Len(times) |-> i],
                       LAMBDA i : InWindow(times[i], start_datetime, end_datetime)))

\* lines 199-203 for the date of measurement, the start time and the duration
PlotBetween(times, co2, start_datetime, duration) ==
    PlotPoints(Filtered(times, co2, start_datetime, start_datetime + duration))

\* lines 195-203: the first row's date, strptime of "from", parse_time_duration
PlotWindow(times, co2, start_time, duration) ==
    IF times = <<>> THEN Outcome("caught", "IndexError", <<>>, <<>>)       \* .iloc[0]
    ELSE IF ~start_time.ok \/ ~duration.ok THEN Outcome("caught", "ValueError", <<>>, <<>>)
    ELSE PlotBetween(times, co2, DateOf(times[1]) * SecondsPerDay + start_time.t, duration.v)

\* lines 183-192: pd.to_datetime, pd.to_numeric, then the keys "from" and "length"
PlotColumns(plot_config, dates, co2) ==
    IF \E i \in 1..Len(dates) : ~Strptime(dates[i]).ok
    THEN Outcome("caught", "ValueError", <<>>, <<>>)
    ELSE IF \E i \in 1..Len(co2) : ~IsNumeric(co2[i])
    THEN Outcome("caught", "ValueError", <<>>, <<>>)
    ELSE IF ~Has(plot_config, "from") \/ ~Has(plot_config, "length")
    THEN Outcome("caught", "KeyError", <<>>, <<>>)
    ELSE PlotWindow([i \in 1..Len(dates) |-> Strptime(dates[i]).t], co2,
                    StrptimeTime(Get(plot_config, "from")),
                    parse_time_duration(Get(plot_config, "length")))

\* lines 178-180: pd.read_csv inside the try
PlotFrame(plot_config, df) ==
    PlotColumns(plot_config, ColumnOf(df, DateHeader), ColumnOf(df, "CO2(ppm)"))

\* lines 168-176: the converted file is looked for
PlotFile(plot_config, dir, file_path) ==
    IF file_path \notin DOMAIN dir THEN Outcome("missing", "none", <<>>, <<>>)
    ELSE PlotFrame(plot_config, dir[file_path])

\* the body of the loop of lines 166-242 for one entry:
\*   "raise"    an exception left the function,
\*   "missing"  the converted file does not exist (warning, continue),
\*   "caught"   an exception was caught by the except clause of line 253,
\*   "empty"    no row in the window (warning, continue),
\*   "rendered" the points `points` were plotted.
PlotOne(plot_config, dir) ==
    IF ~Has(plot_config, "file") THEN Outcome("raise", "KeyError", <<>>, <<>>)   \* line 167
    ELSE PlotFile(plot_config, dir, ConvertedPrefix \o Get(plot_config, "file"))

\* lines 244-248: the clock is read, and a plot is saved under the name it gives
Named(plot_config, r, now) ==
    IF r.outcome # "rendered" THEN r
    ELSE [r EXCEPT !.name = PlotFileName(Get(plot_config, "file"),
                                         Get(plot_config, "from"), now)]

\* plt.savefig: the image is created or replaced
SaveFig(dir, name, pts) ==
    [n \in DOMAIN dir \cup {name} |-> IF n = name THEN pts ELSE dir[n]]

(***************************************************************************)
(* The script: the conversion loop of lines 339-379, then                  *)
(* plot_detailed_co2_data() of line 386                                    *)
(***************************************************************************)
\* the state after one iteration of the conversion loop that ended as r
Converted(r) ==
    /\ converted' = r.dir
    /\ pc' = IF r.exc = "none" THEN "convert" ELSE "crashed"
    /\ fileIdx' = IF r.exc = "none" THEN fileIdx + 1 ELSE fileIdx
    /\ error' = IF r.exc = "none" THEN error ELSE [site |-> "convert", exc |-> r.exc]

\* one iteration of the conversion loop; an exception ends the process
ConvertFile ==
    /\ pc = "convert"
    /\ fileIdx <= Len(get_csv_files(measurements))
    /\ Converted(ConvertOne(converted, get_csv_files(measurements)[fileIdx]))
    /\ UNCHANGED <<measurements, cfgJson, cfgCsv, detailedPlots, clock, detailed_config,
                   entryIdx, log, csvRead, runs, firstRun, arg, ret>>

\* the state after the configuration was loaded as r
Loaded(r) ==
    /\ csvRead' = r.csvRead
    /\ detailed_config' = r.entries
    /\ pc' = IF r.exc # "none" THEN "crashed"
             ELSE IF r.entries = <<>> THEN "done"       \* "No detailed plot ..."
             ELSE "plot"
    /\ error' = IF r.exc # "none" THEN [site |-> "load_config", exc |-> r.exc] ELSE error

\* the loop is over: plot_detailed_co2_data() loads the configuration (lines 151-164)
StartPlots ==
    /\ pc = "convert"
    /\ fileIdx > Len(get_csv_files(measurements))
    /\ Loaded(LoadDetailedConfig(cfgJson, cfgCsv))
    /\ entryIdx' = 1
    /\ UNCHANGED <<measurements, converted, cfgJson, cfgCsv, detailedPlots, clock, fileIdx,
                   log, runs, firstRun, arg, ret>>

\* the state after one entry was handled as r
Plotted(r) ==
    /\ pc' = IF r.outcome = "raise" THEN "crashed" ELSE "plot"
    /\ error' = IF r.outcome = "raise" THEN [site |-> "plot_entry", exc |-> r.exc] ELSE error
    /\ entryIdx' = IF r.outcome = "raise" THEN entryIdx ELSE entryIdx + 1
    /\ log' = IF r.outcome = "raise" THEN log ELSE Append(log, r)
    /\ detailedPlots' = IF r.outcome = "rendered"
                        THEN SaveFig(detailedPlots, r.name, r.points)
                        ELSE detailedPlots

\* time passes while the entry is handled
PlottedAtSomeTime(plot_config, r) ==
    \E now \in clock..(clock + MaxTick) :
        /\ clock' = now
        /\ Plotted(Named(plot_config, r, now))

\* one iteration of the loop over the configuration entries (lines 166-254)
PlotEntry ==
    /\ pc = "plot"
    /\ entryIdx <= Len(detailed_config)
    /\ PlottedAtSomeTime(detailed_config[entryIdx],
                         PlotOne(detailed_config[entryIdx], converted))
    /\ UNCHANGED <<measurements, converted, cfgJson, cfgCsv, fileIdx, detailed_config,
                   csvRead, runs, firstRun, arg, ret>>

\* the loop over the entries is over: plot_detailed_co2_data returns
FinishPlots ==
    /\ pc = "plot"
    /\ entryIdx > Len(detailed_config)
    /\ pc' = "done"
    /\ UNCHANGED <<measurements, converted, cfgJson, cfgCsv, detailedPlots, clock, fileIdx,
                   detailed_config, entryIdx, log, error, csvRead, runs, firstRun, arg, ret>>

\* the script is started again on the same directories
Rerun ==
    /\ pc \in {"done", "crashed"}
    /\ runs < MaxRuns
    /\ runs' = runs + 1
    /\ firstRun' = IF runs = 1 THEN converted ELSE firstRun
    /\ pc' = "convert"
    /\ fileIdx' = 1
    /\ detailed_config' = <<>>
    /\ entryIdx' = 1
    /\ log' = <<>>
    /\ error' = NoError
    /\ csvRead' = FALSE
    /\ \E now \in clock..(clock + MaxTick) : clock' = now
    /\ UNCHANGED <<measurements, converted, cfgJson, cfgCsv, detailedPlots, arg, ret>>

Next == ConvertFile \/ StartPlots \/ PlotEntry \/ FinishPlots

(***************************************************************************)
(* Sample inputs                                                           *)
(***************************************************************************)
\* "<i>.csv", "<i>.txt"
DotTxt == <<".", "t", "x", "t">>
FileName(i, ext) == <<Digits[i + 1]>> \o ext

\* a title line of the device: "D X E <date> <time> e"
GoodTitle(t0) == <<"D", SP, "X", SP, "E", SP>> \o Strftime(t0) \o <<SP, "e">>

\* the i-th data line of a well-formed file: CO2, temperature, maximum, minimum
GoodLine(i) ==
    << <<"c", ":">> \o Dec(400 + i, 1), <<"t", ":", SP, "2", "2", ".", "5">>,
       <<"x", ":">> \o Dec(410 + i, 1), <<"n", ":">> \o Dec(395, 1) >>

GoodFile(t0, n) == << <<GoodTitle(t0)>> >> \o [i \in 1..n |-> GoodLine(i)]

Morning == MakeDateTime(2024, 1, 15, 9, 4, 58)
Midnight == MakeDateTime(2024, 2, 29, 23, 59, 58)
StartClock == MakeDateTime(2024, 3, 1, 12, 0, 0)

\* the raw files of the conversion specifications, by kind
RawKinds == {"good", "surplus", "badtitle", "baddate", "short", "empty", "txt"}
RawOfKind(kind) ==
    CASE kind = "good"     -> GoodFile(Midnight, 2)
      [] kind = "surplus"  -> << <<GoodTitle(Morning)>>,
                                 GoodLine(1) \o << <<"e", ":", "9">> >>, GoodLine(2) >>
      [] kind = "badtitle" -> << << <<"D", SP, "X", SP>> \o Strftime(Morning) \o <<SP, "e">> >> >>
                              \o << GoodLine(1) >>
      [] kind = "baddate"  -> << << <<"D", SP, "X", SP, "E", SP>>
                                    \o <<"2", "0", "2", "4", ".", "1", "3", ".", "4", "5", SP,
                                         "0", "9", ":", "0", "0", ":", "0", "0", SP, "e">> >> >>
                              \o << GoodLine(1) >>
      [] kind = "short"    -> << <<GoodTitle(Morning)>>, GoodLine(1),
                                 SubSeq(GoodLine(2), 1, 3) >>
      [] kind = "empty"    -> <<>>
      [] kind = "txt"      -> << << <<"n", "o", "t", "e", "s">> >> >>

Listing(kinds) ==
    [i \in 1..Len(kinds) |->
        [name |-> FileName(i, IF kinds[i] = "txt" THEN DotTxt ELSE DotCsv),
         file |-> RawOfKind(kinds[i])]]

Str0905 == <<"0", "9", ":", "0", "5", ":", "0", "0">>
Str2359 == <<"2", "3", ":", "5", "9", ":", "5", "8">>
Len0001 == <<"0", "0", ":", "0", "1">>
Len0000 == <<"0", "0", ":", "0", "0">>

Entry(file, from, length) == { <<"file", file>>, <<"from", from>>, <<"length", length>> }

SampleEntries ==
    { Entry(FileName(1, DotCsv), Str0905, Len0001),
      Entry(FileName(1, DotCsv), Str0905, Len0000),
      Entry(FileName(1, DotCsv), Str2359, Len0001),
      Entry(FileName(9, DotCsv), Str0905, Len0001),
      { <<"from", Str0905>>, <<"length", Len0001>> },
      { <<"file", FileName(1, DotCsv)>>, <<"from", Str0905>> } }

EntryLists == UNION {[1..n -> SampleEntries] : n \in 0..MaxEntries}

JsonDocument(shape, has, plots) ==
    [state |-> "ok", shape |-> shape, has |-> has, plots |-> plots]
JsonStates ==
    { MissingJson,
      [state |-> "unreadable", shape |-> "dict", has |-> FALSE, plots |-> <<>>],
      [state |-> "malformed", shape |-> "dict", has |-> FALSE, plots |-> <<>>],
      JsonDocument("list", FALSE, <<>>),
      JsonDocument("dict", FALSE, <<>>) }
    \cup {JsonDocument("dict", TRUE, es) : es \in EntryLists}

SampleCsvRows ==
    { <<FileName(1, DotCsv), Str0905, Len0001>>,
      <<FileName(1, DotCsv), Str2359, Len0000>> }
CsvDocument(header, rows) == [state |-> "ok", header |-> header, rows |-> rows]
CsvStates ==
    { MissingCsv,
      [state |-> "unreadable", header |-> <<>>, rows |-> <<>>],
      CsvDocument(<<"Name", "Start", "Duration">>, << <<FileName(1, DotCsv), Str0905, Len0001>> >>) }
    \cup UNION {{CsvDocument(<<"File", "Start", "Duration">>, rs) : rs \in [1..n -> SampleCsvRows]}
                : n \in 0..MaxEntries}

\* the script starts: WRITEPATH exists and is empty, nothing has been plotted
ScriptStarts ==
    /\ converted = NoFiles
    /\ detailedPlots = NoFiles
    /\ clock = StartClock
    /\ pc = "convert"
    /\ fileIdx = 1
    /\ detailed_config = <<>>
    /\ entryIdx = 1
    /\ log = <<>>
    /\ error = NoError
    /\ csvRead = FALSE
    /\ runs = 1
    /\ firstRun = NoFiles
    /\ arg = <<>>
    /\ ret = NotCalled

(***************************************************************************)
(* The script over every listing of at most MaxFiles raw files             *)
(***************************************************************************)
InitConv ==
    /\ \E n \in 0..MaxFiles : \E kinds \in [1..n -> RawKinds] : measurements = Listing(kinds)
    /\ cfgJson \in { MissingJson,
                     JsonDocument("dict", TRUE,
                                  << Entry(FileName(1, DotCsv), Str2359, Len0001) >>) }
    /\ cfgCsv = MissingCsv
    /\ ScriptStarts

SpecConv == InitConv /\ [][Next]_vars

\* the same, the script being started up to MaxRuns times
SpecRerun == InitConv /\ [][Next \/ Rerun]_vars

(***************************************************************************)
(* The script over every configuration of at most MaxEntries entries       *)
(***************************************************************************)
PlotListings ==
    { << [name |-> FileName(1, DotCsv), file |-> GoodFile(Morning, 3)] >>,
      << [name |-> FileName(1, DotCsv), file |-> GoodFile(Midnight, 1)] >> }

InitPlot ==
    /\ measurements \in PlotListings
    /\ cfgJson \in JsonStates
    /\ cfgCsv \in CsvStates
    /\ ScriptStarts

SpecPlot == InitPlot /\ [][Next]_vars

(***************************************************************************)
(* The script over converted files whose rows lie around the bounds of the *)
(* configured windows                                                      *)
(***************************************************************************)
WindowListings ==
    { << [name |-> FileName(1, DotCsv), file |-> GoodFile(Morning, PlotFileLines)] >>,
      << [name |-> FileName(1, DotCsv), file |-> GoodFile(Morning + 1, PlotFileLines)] >>,
      << [name |-> FileName(1, DotCsv), file |-> GoodFile(Midnight, 3)] >>,
      << [name |-> FileName(1, DotCsv), file |-> GoodFile(Morning, 0)] >>,
      << [name |-> FileName(1, DotCsv), file |-> RawOfKind("surplus")] >> }

WindowEntries ==
    {Entry(FileName(1, DotCsv), from, length) :
        from \in {Str0905, Str2359}, length \in {Len0000, Len0001}}

InitWindow ==
    /\ measurements \in WindowListings
    /\ \E n \in 1..MaxEntries : \E es \in [1..n -> WindowEntries] :
           cfgJson = JsonDocument("dict", TRUE, es)
    /\ cfgCsv = MissingCsv
    /\ ScriptStarts

SpecWindow == InitWindow /\ [][Next]_vars

(***************************************************************************)
(* Specification of get_first_line_info over every first line of at most   *)
(* MaxTitleLen characters                                                  *)
(***************************************************************************)
TitleAlphabet == {SP, "\t", "a"}
Titles == UNION {[1..n -> TitleAlphabet] : n \in 0..MaxTitleLen}

InitTitle ==
    /\ ProgramIdle
    /\ arg \in {<<>>, << <<>> >>} \cup {<< <<t>> >> : t \in Titles}
    /\ ret = NotCalled

CallGetFirstLineInfo ==
    /\ ret = NotCalled
    /\ ret' = get_first_line_info(arg)
    /\ UNCHANGED <<arg, progVars>>

NextTitle == CallGetFirstLineInfo

SpecTitle == InitTitle /\ [][NextTitle]_vars

(***************************************************************************)
(* C2                                                                      *)
(***************************************************************************)
TitleOf(file) == file[1][1]
HasTitle(file) == file # <<>> /\ file[1] # <<>>

\* the title without its first token: what follows the first space
AfterFirstToken(title) == SplitOnce(title)[2]

\* the non-empty segments between single spaces
Segments(s) == SelectSeq(Split(s, SP), LAMBDA x : x # <<>>)

\* the whitespace tokens between the first token and the last token
RegionTokens(title) ==
    LET toks == SplitWs(AfterFirstToken(title))
    IN  SubSeq(toks, 1, Len(toks) - 1)

\* C2 as claimed: a title with at least four space-separated segments after its
\* first token parses, and the date and time returned are the last two whitespace
\* tokens of the region between the first token and the last token.
C2_AtLeastFourSegments ==
    (/\ ret # NotCalled
     /\ HasTitle(arg)
     /\ Len(SplitOnce(TitleOf(arg))) = 2
     /\ Len(Segments(AfterFirstToken(TitleOf(arg)))) >= 4)
    => LET r == RegionTokens(TitleOf(arg))
       IN  /\ ret.exc = "none"
           /\ Len(r) >= 2
           /\ ret.date = r[Len(r) - 1] \o <<SP>> \o r[Len(r)]

\* C2 amended: get_first_line_info succeeds exactly when the text between the first
\* and the last space of the title holds exactly four whitespace tokens; it then
\* returns the title and the third and fourth of them (the last two) as date and
\* time, and it raises for every other number of tokens.
C2_ExactlyFourTokens ==
    ret # NotCalled =>
        LET parses == /\ HasTitle(arg)
                      /\ FindFirst(TitleOf(arg), SP) # 0
                      /\ Len(SplitWs(MiddleRegion(TitleOf(arg)))) = 4
        IN  /\ (ret.exc = "none") <=> parses
            /\ parses =>
                 LET toks == SplitWs(MiddleRegion(TitleOf(arg)))
                 IN  /\ ret.title = TitleOf(arg)
                     /\ ret.date = toks[3] \o <<SP>> \o toks[4]
                     /\ ret.date = toks[Len(toks) - 1] \o <<SP>> \o toks[Len(toks)]

\* a title has been parsed whose date token is longer than its time token
C2_Witness ==
    /\ ret.exc = "none"
    /\ Len(SplitWs(ret.date)[1]) = 2
    /\ Len(SplitWs(ret.date)[2]) = 1

(***************************************************************************)
(* Specification of create_writable_list over raw files of at most         *)
(* MaxLines data lines of at most MaxCells cells                           *)
(***************************************************************************)
\* the i-th cell of a sample data line, in two spellings
SampleCell(v, i) ==
    IF v = 1 THEN <<"a", ":", "4", Digits[i + 1]>>
    ELSE <<"k", ":", "v", ":", SP, Digits[i + 1], SP>>
SampleLine(v, n) == [i \in 1..n |-> SampleCell(v, i)]
SampleLines == {SampleLine(v, n) : v \in 1..2, n \in 0..MaxCells}

SampleTitle == <<"D", SP, "X", SP, "E", SP, "d", SP, "t", SP, "e">>

SampleStarts ==
    { MakeDateTime(2024, 1, 15, 9, 0, 0),
      MakeDateTime(2024, 2, 29, 23, 59, 58),
      MakeDateTime(2023, 12, 31, 23, 59, 59) }

InitRows ==
    /\ ProgramIdle
    /\ \E n \in 0..MaxLines : \E ls \in [1..n -> SampleLines] : \E t0 \in SampleStarts :
           arg = [file |-> << <<SampleTitle>> >> \o ls, t0 |-> t0]
    /\ ret = NotCalledRows

CallCreateWritableList ==
    /\ ret = NotCalledRows
    /\ ret' = create_writable_list(arg.file, arg.t0)
    /\ UNCHANGED <<arg, progVars>>

NextRows == CallCreateWritableList

SpecRows == InitRows /\ [][NextRows]_vars

DataLines(file) == Tail(file)

\* C1 as claimed: when the file converts, there is one row per data line and row N
\* (0-based) holds start + 2N seconds under Date_Of_Measurement(datetime).
C1_TimestampIsStartPlus2N ==
    ret.exc = "none" =>
        /\ Len(ret.rows) = Len(DataLines(arg.file))
        /\ \A n \in 1..Len(ret.rows) :
               Strptime(ret.rows[n][DateHeader]) =
                   [ok |-> TRUE, t |-> arg.t0 + 2 * (n - 1)]

\* C9 as claimed: a data line of fewer or more than four cells is accepted without
\* error and the conversion goes on to the next line.
C9_AnyCellCountAccepted ==
    (/\ ret # NotCalledRows
     /\ \E n \in 1..Len(DataLines(arg.file)) : Len(DataLines(arg.file)[n]) # 4)
    => /\ ret.exc = "none"
       /\ Len(ret.rows) = Len(DataLines(arg.file))

\* C9 amended: there is no column-count validation for surplus cells only.  A data
\* line of more than four cells is accepted and yields a mapping of the five headers
\* to its first five de-prefixed cells (the timestamp is dropped), and the
\* conversion continues with the next line; a data line of fewer than four cells
\* raises IndexError and ends the conversion.
C9_SurplusAcceptedShortRaises ==
    ret # NotCalledRows =>
        LET lines == DataLines(arg.file)
            short == \E n \in 1..Len(lines) : Len(lines[n]) < 4
        IN  /\ short <=> ret.exc = "IndexError"
            /\ ~short => /\ ret.exc = "none"
                         /\ Len(ret.rows) = Len(lines)
                         /\ \A n \in 1..Len(lines) :
                                /\ DOMAIN ret.rows[n] = HeaderSet
                                /\ Len(lines[n]) > 4 =>
                                       \A i \in 1..Len(Headers) :
                                           ret.rows[n][Headers[i]] = DePrefix(lines[n][i])

\* a line of more than four cells was converted and so was the line after it
C9_Witness ==
    /\ ret.exc = "none"
    /\ Len(ret.rows) >= 2
    /\ Len(DataLines(arg.file)[1]) > 4
    /\ ret.rows[1][DateHeader] = DePrefix(DataLines(arg.file)[1][5])

(***************************************************************************)
(* C3                                                                      *)
(***************************************************************************)
CsvFiles == get_csv_files(measurements)
OutputName(i) == ConvertedPrefix \o CsvFiles[i].name

\* the conversion loop raised
ConversionCrashed == pc = "crashed" /\ error.site = "convert"

\* how many files the conversion loop has been through
FilesDone == IF pc = "convert" \/ ConversionCrashed THEN fileIdx - 1 ELSE Len(CsvFiles)

\* parsing or transforming the file raises
Raises(entry) == ConvertOne(NoFiles, entry).exc # "none"

\* C3: conversion is strict and sequential.  At every moment the output directory
\* holds exactly the outputs of the files the loop has been through, in discovery
\* order, each fully written (the header and one record per data line); the loop
\* never gets past a file whose parsing or transforming raises, so neither that
\* file nor a later one has an output; and when the loop raised, the process has
\* ended without the detailed-plot phase having started.
C3_StrictSequential ==
    /\ DOMAIN converted = {OutputName(i) : i \in 1..FilesDone}
    /\ \A i \in 1..FilesDone :
           /\ converted[OutputName(i)].fieldnames = Headers
           /\ Len(converted[OutputName(i)].rows) = Len(DataLines(CsvFiles[i].file))
           /\ ~Raises(CsvFiles[i])
    /\ (pc = "convert" /\ fileIdx <= Len(CsvFiles) /\ Raises(CsvFiles[fileIdx]))
           => ~ENABLED StartPlots
    /\ ConversionCrashed =>
           /\ Raises(CsvFiles[fileIdx])
           /\ ~ENABLED Next
           /\ log = <<>> /\ detailed_config = <<>> /\ ~csvRead /\ detailedPlots = NoFiles

\* the second file raised after the first was converted
C3_Witness ==
    /\ ConversionCrashed
    /\ fileIdx = 2
    /\ Len(CsvFiles) >= 2
    /\ DOMAIN converted = {OutputName(1)}
    /\ Len(converted[OutputName(1)].rows) = 2

(***************************************************************************)
(* C8                                                                      *)
(***************************************************************************)
\* C8: from the second run on, the output directory holds at every moment what it
\* held when the first run ended: each run replaces each output with the same
\* content, the header followed by one record per data line, and the title line
\* is in no output.
C8_Idempotent ==
    /\ runs >= 2 => converted = firstRun
    /\ \A i \in 1..Len(CsvFiles) :
           OutputName(i) \in DOMAIN converted =>
               /\ converted[OutputName(i)].fieldnames = Headers
               /\ Len(converted[OutputName(i)].rows) = Len(DataLines(CsvFiles[i].file))
               /\ \A n \in 1..Len(converted[OutputName(i)].rows) :
                      \A c \in 1..Len(Headers) :
                          converted[OutputName(i)].rows[n][c] # CsvFiles[i].file[1][1]

\* a second run has ended that wrote two output files again
C8_Witness ==
    /\ runs = 2
    /\ pc = "done"
    /\ Cardinality(DOMAIN converted) = 2
    /\ firstRun = converted

(***************************************************************************)
(* C4, C5, C6, C10                                                         *)
(***************************************************************************)
\* C4 as claimed: whatever goes wrong with an entry is caught, the entries after it
\* are handled and plot_detailed_co2_data returns normally.
C4_EntriesIsolated ==
    /\ ~(pc = "crashed" /\ error.site = "plot_entry")
    /\ pc = "done" => Len(log) = Len(detailed_config)

\* the detailed_plots list a configuration file yields, empty when it yields none
JsonYield(file) ==
    IF file.state = "ok" /\ file.shape = "dict" /\ file.has THEN file.plots ELSE <<>>
ValidCsv(file) == file.state = "ok" /\ file.header = <<"File", "Start", "Duration">>
CsvYield(file) ==
    IF ValidCsv(file)
    THEN [i \in 1..Len(file.rows) |->
            Entry(file.rows[i][1], file.rows[i][2], file.rows[i][3])]
    ELSE <<>>

\* the configuration has been loaded, or loading it raised
ConfigLoaded == pc \in {"plot", "done"} \/ (pc = "crashed" /\ error.site # "convert")

\* C5 as claimed: when neither file yields a non-empty list, loading raises nothing,
\* nothing is rendered and plot_detailed_co2_data returns.
C5_ConfigNeverFatal ==
    (JsonYield(cfgJson) = <<>> /\ CsvYield(cfgCsv) = <<>> /\ ConfigLoaded)
    => /\ pc = "done"
       /\ error = NoError
       /\ detailed_config = <<>>
       /\ detailedPlots = NoFiles

\* C6 as claimed: a missing, unreadable, malformed or empty JSON configuration with a
\* valid CSV configuration gives the CSV's rows in file order; a JSON configuration
\* with a non-empty list gives that list and the CSV configuration is not read.
C6_ConfigSourceSelection ==
    ConfigLoaded =>
        /\ (/\ \/ cfgJson.state \in {"missing", "unreadable", "malformed"}
               \/ cfgJson.state = "ok" /\ cfgJson.shape = "dict" /\ JsonYield(cfgJson) = <<>>
            /\ ValidCsv(cfgCsv))
           => /\ error.site # "load_config"
              /\ detailed_config = CsvYield(cfgCsv)
        /\ JsonYield(cfgJson) # <<>>
           => /\ error.site # "load_config"
              /\ detailed_config = JsonYield(cfgJson)
              /\ ~csvRead

Rendered == SelectSeq(log, LAMBDA r : r.outcome = "rendered")

\* C10 as claimed: every save creates a new image, so there are as many images as
\* entries rendered.
C10_ImagesNeverOverwritten == Cardinality(DOMAIN detailedPlots) = Len(Rendered)

(***************************************************************************)
(* C7                                                                      *)
(***************************************************************************)
\* the second of the day and the duration the sample texts stand for
SecondOfDay(from) ==
    CASE from = Str0905 -> 9 * 3600 + 5 * 60
      [] from = Str2359 -> 23 * 3600 + 59 * 60 + 58
DurationSeconds(length) ==
    CASE length = Len0000 -> 0
      [] length = Len0001 -> 60

\* the timestamps and the CO2 cells of the converted file an entry names
RowTimes(entry) ==
    LET df == converted[ConvertedPrefix \o Get(entry, "file")]
    IN  [i \in 1..Len(df.rows) |-> Strptime(df.rows[i][5]).t]
RowCo2(entry) ==
    LET df == converted[ConvertedPrefix \o Get(entry, "file")]
    IN  [i \in 1..Len(df.rows) |-> df.rows[i][1]]

WindowStart(entry) ==
    DateOf(RowTimes(entry)[1]) * SecondsPerDay + SecondOfDay(Get(entry, "from"))
WindowEnd(entry) == WindowStart(entry) + DurationSeconds(Get(entry, "length"))

\* C7: for every entry that got as far as the filter, the points plotted are exactly
\* the rows with start <= t <= end, in file order, start being the date of the first
\* row at the entry's from time and end being start plus the entry's length; a row
\* at start or at end is plotted, a row one second before start or after end is not;
\* and the entry is skipped exactly when no row is in the window.
C7_WindowInclusive ==
    \A n \in 1..Len(log) :
        log[n].outcome \in {"rendered", "empty"} =>
            LET entry == detailed_config[n]
                times == RowTimes(entry)
                co2   == RowCo2(entry)
                start == WindowStart(entry)
                end   == WindowEnd(entry)
                inside == SelectSeq([i \in 1..Len(times) |-> i],
                                    LAMBDA i : start <= times[i] /\ times[i] <= end)
                plotted == {log[n].points[m][1] : m \in 1..Len(log[n].points)}
            IN  /\ log[n].points = [m \in 1..Len(inside) |->
                                       <<times[inside[m]], co2[inside[m]]>>]
                /\ \A i \in 1..Len(times) :
                       /\ times[i] \in {start, end} => times[i] \in plotted
                       /\ times[i] \in {start - 1, end + 1} => times[i] \notin plotted
                /\ log[n].outcome = "empty" <=> inside = <<>>

\* an entry was rendered whose window of one minute starts and ends on a row, the
\* rows two seconds before its start left out
C7_Witness ==
    \E n \in 1..Len(log) :
        /\ log[n].outcome = "rendered"
        /\ WindowEnd(detailed_config[n]) = WindowStart(detailed_config[n]) + 60
        /\ log[n].points[1][1] = WindowStart(detailed_config[n])
        /\ log[n].points[Len(log[n].points)][1] = WindowEnd(detailed_config[n])
        /\ RowTimes(detailed_config[n])[1] = WindowStart(detailed_config[n]) - 2

====
